---------------------------- MODULE Spec2Model ----------------------------
(***************************************************************************)
(* A model of the struct-tag driven environment loader of package config:  *)
(* the value parsers, the validators, and the recursive field walker of    *)
(* EnvLoader.LoadConfig.                                                   *)
(*                                                                         *)
(* Raw strings that are parsed (environment values, default/min/max tag    *)
(* literals) are sequences of one-character strings, so that the           *)
(* conversions are computed character by character.  Environment keys,     *)
(* field names and messages are plain strings.                             *)
(*                                                                         *)
(* Numbers: integers are TLA+ integers (every literal of the model is far  *)
(* from the int64 limits, so strconv's range error cannot occur);          *)
(* float64 values are exact rationals n/d plus NaN (short decimal          *)
(* literals keep their order when rounded to float64); durations are       *)
(* counted in milliseconds (the literals use the units ms, s, m, h).       *)
(* All structure fields are exported, hence settable through reflection.   *)
(***************************************************************************)
EXTENDS Integers, Sequences, FiniteSets, TLC

VARIABLES env, loader, call, vcall, pcall

vars == <<env, loader, call, vcall, pcall>>

-----------------------------------------------------------------------------
(* Tag keys, tag values and messages                                       *)

TagTrue == "true"

ErrRequiredField == "required field is empty"

ErrOutOfRange == "value out of range"

ErrUnsupportedType == "unsupported type"

ErrConfigNotPtr == "config must be a pointer"

\* The nil error; a non-nil error is the sequence of its wrapped messages,
\* outermost first.
NoErr == <<>>

-----------------------------------------------------------------------------
(* Strings as character sequences                                          *)

Digits == <<"0", "1", "2", "3", "4", "5", "6", "7", "8", "9">>

IsDigit(c) == \E i \in DOMAIN Digits : Digits[i] = c

DigitVal(c) == (CHOOSE i \in DOMAIN Digits : Digits[i] = c) - 1

AllDigits(s) == \A i \in DOMAIN s : IsDigit(s[i])

\* The value of a digit string in base 10 (0 for the empty string).
RECURSIVE DecVal(_)
DecVal(s) ==
    IF s = <<>> THEN 0
    ELSE 10 * DecVal(SubSeq(s, 1, Len(s) - 1)) + DigitVal(s[Len(s)])

RECURSIVE Pow10(_)
Pow10(k) == IF k = 0 THEN 1 ELSE 10 * Pow10(k - 1)

\* The length of the longest prefix of s made of digits.
RECURSIVE DigitPrefixLen(_)
DigitPrefixLen(s) ==
    IF s = <<>> \/ ~IsDigit(Head(s)) THEN 0 ELSE 1 + DigitPrefixLen(Tail(s))

HasSign(s) == s # <<>> /\ Head(s) \in {"+", "-"}

Unsigned(s) == IF HasSign(s) THEN Tail(s) ELSE s

\* strings.Split(s, sep) for a one-character separator: always at least one
\* piece; n separators give n + 1 pieces, empty pieces included.
RECURSIVE Split(_, _)
Split(s, sep) ==
    IF \A i \in DOMAIN s : s[i] # sep THEN <<s>>
    ELSE LET k == CHOOSE i \in DOMAIN s :
                      s[i] = sep /\ \A j \in 1..(i - 1) : s[j] # sep
         IN  <<SubSeq(s, 1, k - 1)>> \o Split(SubSeq(s, k + 1, Len(s)), sep)

-----------------------------------------------------------------------------
(* strconv and time conversions                                            *)

\* strconv.ParseInt(s, 10, 64): an optional sign, then one or more digits.
ParseInt(s) ==
    LET u == Unsigned(s)
    IN  IF u = <<>> \/ ~AllDigits(u)
        THEN [ok |-> FALSE, v |-> 0, err |-> "strconv.ParseInt: invalid syntax"]
        ELSE [ok |-> TRUE,
              v |-> IF HasSign(s) /\ Head(s) = "-" THEN 0 - DecVal(u) ELSE DecVal(u),
              err |-> ""]

\* strconv.Atoi(s): ParseInt(s, 10, 0) under its own error name.
Atoi(s) ==
    LET r == ParseInt(s)
    IN  IF r.ok THEN r ELSE [r EXCEPT !.err = "strconv.Atoi: invalid syntax"]

BoolTrueLits ==
    { <<"1">>, <<"t">>, <<"T">>, <<"T", "R", "U", "E">>,
      <<"t", "r", "u", "e">>, <<"T", "r", "u", "e">> }

BoolFalseLits ==
    { <<"0">>, <<"f">>, <<"F">>, <<"F", "A", "L", "S", "E">>,
      <<"f", "a", "l", "s", "e">>, <<"F", "a", "l", "s", "e">> }

\* strconv.ParseBool(s).
ParseBool(s) ==
    IF s \in BoolTrueLits THEN [ok |-> TRUE, v |-> TRUE, err |-> ""]
    ELSE IF s \in BoolFalseLits THEN [ok |-> TRUE, v |-> FALSE, err |-> ""]
    ELSE [ok |-> FALSE, v |-> FALSE, err |-> "strconv.ParseBool: invalid syntax"]

\* A float64: NaN, or the rational n/d with d a power of ten.
FloatNum(n, d) == [nan |-> FALSE, n |-> n, d |-> d]

FloatNaN == [nan |-> TRUE, n |-> 0, d |-> 1]

FloatZero == FloatNum(0, 1)

\* Float comparisons; every comparison with NaN is false.
FloatLess(a, b) == ~a.nan /\ ~b.nan /\ a.n * b.d < b.n * a.d

FloatEq(a, b) == ~a.nan /\ ~b.nan /\ a.n * b.d = b.n * a.d

NaNLits == { <<"N", "a", "N">>, <<"n", "a", "n">>, <<"N", "A", "N">> }

\* The float64 denoted by the unsigned decimal literal whose integer digits
\* are ip and whose fraction digits are fr.
DecimalFloat(neg, ip, fr) ==
    FloatNum((IF neg THEN -1 ELSE 1) * (DecVal(ip) * Pow10(Len(fr)) + DecVal(fr)),
             Pow10(Len(fr)))

\* An unsigned decimal literal u whose first k characters are its integer
\* digits: the rest is empty, or a point followed by digits only, and there
\* is at least one digit in all.
IsDecimal(u, k) ==
    /\ k = Len(u) \/ u[k + 1] = "."
    /\ AllDigits(SubSeq(u, k + 2, Len(u)))
    /\ k + Len(SubSeq(u, k + 2, Len(u))) > 0

ParseUnsignedFloat(neg, u, k) ==
    IF IsDecimal(u, k)
    THEN [ok |-> TRUE,
          v |-> DecimalFloat(neg, SubSeq(u, 1, k), SubSeq(u, k + 2, Len(u))),
          err |-> ""]
    ELSE [ok |-> FALSE, v |-> FloatZero, err |-> "strconv.ParseFloat: invalid syntax"]

\* strconv.ParseFloat(s, 64) on decimal literals without exponent: an
\* optional sign, digits with an optional fraction point (at least one digit
\* in all), or a spelling of NaN.
ParseFloat(s) ==
    IF s \in NaNLits THEN [ok |-> TRUE, v |-> FloatNaN, err |-> ""]
    ELSE ParseUnsignedFloat(HasSign(s) /\ Head(s) = "-", Unsigned(s),
                            DigitPrefixLen(Unsigned(s)))

\* The unit table of time.ParseDuration, in milliseconds.
UnitMs(u) ==
    CASE u = <<"m", "s">> -> 1
      [] u = <<"s">>      -> 1000
      [] u = <<"m">>      -> 60000
      [] u = <<"h">>      -> 3600000
      [] OTHER            -> 0

\* The length of the longest prefix of s holding neither a digit nor a point:
\* the unit of one group of a duration literal.
RECURSIVE UnitPrefixLen(_)
UnitPrefixLen(s) ==
    IF s = <<>> \/ IsDigit(Head(s)) \/ Head(s) = "." THEN 0
    ELSE 1 + UnitPrefixLen(Tail(s))

\* s without its first k characters.
Drop(s, k) == SubSeq(s, k + 1, Len(s))

\* s without a leading point, if it has one.
SkipPoint(s) == IF s # <<>> /\ Head(s) = "." THEN Tail(s) ELSE s

\* The groups  digits [. digits] unit  of a duration literal, summed.
\* -1 stands for a malformed literal.  DurGroup is one group, split into its
\* integer digits ip, fraction digits fp, unit and the groups that follow.
RECURSIVE DurGroups(_)
RECURSIVE DurFraction(_, _)
RECURSIVE DurUnit(_, _, _)
RECURSIVE DurGroup(_, _, _, _)
DurGroups(s) ==
    IF s = <<>> THEN 0
    ELSE DurFraction(SubSeq(s, 1, DigitPrefixLen(s)),
                     SkipPoint(Drop(s, DigitPrefixLen(s))))

DurFraction(ip, s) ==
    DurUnit(ip, SubSeq(s, 1, DigitPrefixLen(s)), Drop(s, DigitPrefixLen(s)))

DurUnit(ip, fp, s) ==
    DurGroup(ip, fp, SubSeq(s, 1, UnitPrefixLen(s)), Drop(s, UnitPrefixLen(s)))

DurGroup(ip, fp, unit, rest) ==
    IF Len(ip) + Len(fp) = 0 \/ unit = <<>> \/ UnitMs(unit) = 0 THEN -1
    ELSE IF DurGroups(rest) = -1 THEN -1
    ELSE DecVal(ip) * UnitMs(unit)
         + (DecVal(fp) * UnitMs(unit)) \div Pow10(Len(fp))
         + DurGroups(rest)

\* time.ParseDuration(s): [sign] then "0" or a non-empty list of groups.
ParseUnsignedDuration(neg, u, g) ==
    IF u = <<"0">> THEN [ok |-> TRUE, v |-> 0, err |-> ""]
    ELSE IF u = <<>> \/ g = -1
    THEN [ok |-> FALSE, v |-> 0, err |-> "time: invalid duration"]
    ELSE [ok |-> TRUE, v |-> IF neg THEN 0 - g ELSE g, err |-> ""]

ParseDuration(s) ==
    ParseUnsignedDuration(HasSign(s) /\ Head(s) = "-", Unsigned(s),
                          DurGroups(Unsigned(s)))

-----------------------------------------------------------------------------
(* Go types of fields and their values                                     *)

\* reflect.Kind of a type.  time.Duration is a named int64, MyInt a named
\* int, time.Time a struct.
KindOf(typ) ==
    CASE typ = "time.Duration"               -> "int64"
      [] typ = "MyInt"                       -> "int"
      [] typ \in {"[]string", "[]int64", "[]complex64"} -> "slice"
      [] typ \in {"time.Time", "struct"}     -> "struct"
      [] OTHER                               -> typ

\* The element type of a slice type.
ElemOf(typ) ==
    CASE typ = "[]string"    -> "string"
      [] typ = "[]int64"     -> "int64"
      [] typ = "[]complex64" -> "complex64"

\* A slice value: nil or not, and its elements.
SliceVal(isNil, elems) == [nil |-> isNil, elems |-> elems]

\* The zero value of a type (reflect.Zero / reflect.New(t).Elem()).
ZeroOf(typ) ==
    CASE KindOf(typ) = "string"           -> <<>>
      [] KindOf(typ) \in {"int", "int64"} -> 0
      [] KindOf(typ) = "bool"             -> FALSE
      [] KindOf(typ) = "float64"          -> FloatZero
      [] KindOf(typ) = "slice"            -> SliceVal(TRUE, <<>>)
      [] OTHER                            -> "zero"

\* A non-zero value of each type, for a target filled in before the call.
RECURSIVE NonZeroOf(_)
NonZeroOf(typ) ==
    CASE KindOf(typ) = "string"           -> <<"p">>
      [] KindOf(typ) \in {"int", "int64"} -> 7
      [] KindOf(typ) = "bool"             -> TRUE
      [] KindOf(typ) = "float64"          -> FloatNum(7, 1)
      [] KindOf(typ) = "slice"            -> SliceVal(FALSE, <<NonZeroOf(ElemOf(typ))>>)
      [] OTHER                            -> "set"

-----------------------------------------------------------------------------
(* Parsers.  Parse(raw, field) gives [err, v]: the error returned and the  *)
(* value the field holds afterwards.                                       *)

Parsed(v) == [err |-> NoErr, v |-> v]

ParseFailed(msg, v) == [err |-> <<msg>>, v |-> v]

\* The end of every scalar parser: return the conversion's error, or set
\* the field to the converted value.
SetConverted(r, v) == IF ~r.ok THEN ParseFailed(r.err, v) ELSE Parsed(r.v)

StringParser(raw, v) == Parsed(raw)

\* C12 mutant: the empty string is converted like any other.
Int64Parser_NoEmptyTest(raw, v) == SetConverted(ParseInt(raw), v)

Int64Parser(raw, v) ==
    IF raw = <<>> THEN Parsed(v) ELSE SetConverted(ParseInt(raw), v)

IntParser(raw, v) ==
    IF raw = <<>> THEN Parsed(v) ELSE SetConverted(Atoi(raw), v)

BoolParser(raw, v) ==
    IF raw = <<>> THEN Parsed(v) ELSE SetConverted(ParseBool(raw), v)

Float64Parser(raw, v) ==
    IF raw = <<>> THEN Parsed(v) ELSE SetConverted(ParseFloat(raw), v)

\* C14 mutant: a bare integer is given no unit.
DurationParser_NoUnit(raw, v) ==
    IF raw = <<>> THEN Parsed(v) ELSE SetConverted(ParseDuration(raw), v)

\* A bare integer is given the unit of seconds.
DurationParser(raw, v) ==
    IF raw = <<>> THEN Parsed(v)
    ELSE SetConverted(
           ParseDuration(IF Atoi(raw).ok THEN raw \o <<"s">> ELSE raw), v)

\* defaultParsers: kind -> parser.
defaultParsers ==
    [k \in {"string", "int64", "int", "slice", "bool", "float64"} |->
        CASE k = "string"  -> "StringParser"
          [] k = "int64"   -> "Int64Parser"
          [] k = "int"     -> "IntParser"
          [] k = "slice"   -> "SliceParser"
          [] k = "bool"    -> "BoolParser"
          [] k = "float64" -> "Float64Parser"]

\* Parsers a caller supplies, after the README's IPParser: an error for a
\* value the parser rejects, else the field is set.
CustomParsers == {"CustomParserA", "CustomParserB"}

CustomParse(raw, typ, v) ==
    IF raw = <<"x">> THEN ParseFailed("invalid value", v)
    ELSE Parsed(NonZeroOf(typ))

\* A parser applied by name.  SliceParser.Parse is
\* ParseWithContext without a provider, which falls back to defaultParsers.
RECURSIVE ParserParse(_, _, _, _)
RECURSIVE ParseWithContext(_, _, _, _)
ParserParse(parser, raw, typ, v) ==
    CASE parser = "StringParser"   -> StringParser(raw, v)
      [] parser = "Int64Parser"    -> Int64Parser(raw, v)
      [] parser = "IntParser"      -> IntParser(raw, v)
      [] parser = "BoolParser"     -> BoolParser(raw, v)
      [] parser = "Float64Parser"  -> Float64Parser(raw, v)
      [] parser = "DurationParser" -> DurationParser(raw, v)
      [] parser = "SliceParser"    -> ParseWithContext(raw, typ, v, defaultParsers)
      [] parser \in CustomParsers   -> CustomParse(raw, typ, v)

\* The end of ParseWithContext: res holds what the element parser gave for
\* each piece; the first error is returned, else the field is set.
\* C19 mutant: the pieces parsed before a failing one are put in the field.
SetElements_Partial(res, v) ==
    IF \E i \in DOMAIN res : res[i].err # NoErr
    THEN [err |-> res[CHOOSE i \in DOMAIN res :
                        /\ res[i].err # NoErr
                        /\ \A j \in 1..(i - 1) : res[j].err = NoErr].err,
          v |-> SliceVal(FALSE,
                         SubSeq([i \in DOMAIN res |-> res[i].v], 1,
                                (CHOOSE i \in DOMAIN res :
                                    /\ res[i].err # NoErr
                                    /\ \A j \in 1..(i - 1) : res[j].err = NoErr) - 1))]
    ELSE Parsed(SliceVal(FALSE, [i \in DOMAIN res |-> res[i].v]))

\* C13 mutant: the elements are put in the reverse order of the pieces.
SetElements_Reversed(res, v) ==
    IF \E i \in DOMAIN res : res[i].err # NoErr
    THEN [err |-> res[CHOOSE i \in DOMAIN res :
                        /\ res[i].err # NoErr
                        /\ \A j \in 1..(i - 1) : res[j].err = NoErr].err,
          v |-> v]
    ELSE Parsed(SliceVal(FALSE, [i \in DOMAIN res |-> res[Len(res) + 1 - i].v]))

SetElements(res, v) ==
    IF \E i \in DOMAIN res : res[i].err # NoErr
    THEN [err |-> res[CHOOSE i \in DOMAIN res :
                        /\ res[i].err # NoErr
                        /\ \A j \in 1..(i - 1) : res[j].err = NoErr].err,
          v |-> v]
    ELSE Parsed(SliceVal(FALSE, [i \in DOMAIN res |-> res[i].v]))

\* The loop of ParseWithContext: each piece parsed into a zero element.
ParseElements(values, parser, et) ==
    [i \in DOMAIN values |-> ParserParse(parser, values[i], et, ZeroOf(et))]

\* SliceParser.ParseWithContext(value, field, provider), the provider being
\* the lookup in the table `parsers`.
ParseWithContext(raw, typ, v, parsers) ==
    IF raw = <<>> THEN Parsed(v)
    ELSE IF KindOf(ElemOf(typ)) \notin DOMAIN parsers
    THEN [err |-> <<"unsupported slice element type", KindOf(ElemOf(typ))>>,
          v |-> v]
    ELSE SetElements(ParseElements(Split(raw, ","), parsers[KindOf(ElemOf(typ))],
                                   ElemOf(typ)), v)

-----------------------------------------------------------------------------
(* Struct tags.  Tag.Get gives "" for an absent key, so an absent tag and  *)
(* an empty one are the same record field.                                 *)

Tags(e, req, def, mn, mx, msg) ==
    [env |-> e, required |-> req, default |-> def, min |-> mn, max |-> mx,
     range_error |-> msg]

-----------------------------------------------------------------------------
(* Validators.  Validate(field, tags) gives the error returned.            *)

\* C7 mutant: of the sequences only the nil one counts as zero.
isZeroValue_NilOnly(typ, v) ==
    CASE KindOf(typ) = "slice"            -> v.nil
      [] KindOf(typ) = "string"           -> v = <<>>
      [] KindOf(typ) \in {"int", "int64"} -> v = 0
      [] KindOf(typ) = "float64"          -> FloatEq(v, FloatZero)
      [] OTHER                            -> v = ZeroOf(typ)

isZeroValue(typ, v) ==
    CASE KindOf(typ) = "slice"            -> Len(v.elems) = 0
      [] KindOf(typ) = "string"           -> v = <<>>
      [] KindOf(typ) \in {"int", "int64"} -> v = 0
      [] KindOf(typ) = "float64"          -> FloatEq(v, FloatZero)
      [] OTHER                            -> v = ZeroOf(typ)

\* C8 mutant: only an empty text violates the requirement.
RequiredValidator_TextOnly(typ, v, tags) ==
    IF tags.required # TagTrue THEN NoErr
    ELSE IF KindOf(typ) = "string" /\ v = <<>> THEN <<ErrRequiredField>>
    ELSE NoErr

RequiredValidator(typ, v, tags) ==
    IF tags.required # TagTrue THEN NoErr
    ELSE IF isZeroValue(typ, v) THEN <<ErrRequiredField>>
    ELSE NoErr

\* The comparisons of validateIntRange, mn and mx being strconv.ParseInt of
\* the min and max literals.
intRange(val, minStr, maxStr, mn, mx) ==
    IF minStr # <<>> /\ ~mn.ok THEN <<"invalid min value", mn.err>>
    ELSE IF minStr # <<>> /\ val < mn.v THEN <<"value is less than minimum">>
    ELSE IF maxStr # <<>> /\ ~mx.ok THEN <<"invalid max value", mx.err>>
    ELSE IF maxStr # <<>> /\ val > mx.v THEN <<"value is greater than maximum">>
    ELSE NoErr

validateIntRange(val, minStr, maxStr) ==
    intRange(val, minStr, maxStr, ParseInt(minStr), ParseInt(maxStr))

\* The comparisons of validateFloatRange, mn and mx being strconv.ParseFloat
\* of the min and max literals.
floatRange(value, minStr, maxStr, mn, mx) ==
    IF minStr # <<>> /\ ~mn.ok THEN <<"invalid min value", mn.err>>
    ELSE IF minStr # <<>> /\ FloatLess(value, mn.v)
    THEN <<"value is less than minimum">>
    ELSE IF maxStr # <<>> /\ ~mx.ok THEN <<"invalid max value", mx.err>>
    ELSE IF maxStr # <<>> /\ FloatLess(mx.v, value)
    THEN <<"value is greater than maximum">>
    ELSE NoErr

validateFloatRange(value, minStr, maxStr) ==
    floatRange(value, minStr, maxStr, ParseFloat(minStr), ParseFloat(maxStr))

\* The type switch of RangeValidator.Validate is on the dynamic type of
\* field.Interface(): int and int64 themselves, not types of those kinds.
RangePath(typ) ==
    CASE typ \in {"int", "int64"} -> "int"
      [] typ = "float64"          -> "float"
      [] OTHER                    -> "none"

\* The end of RangeValidator.Validate: a range error is wrapped in errMsg.
rangeResult(errMsg, err) == IF err # NoErr THEN <<errMsg>> \o err ELSE NoErr

RangeValidator(typ, v, tags) ==
    IF tags.min = <<>> /\ tags.max = <<>> THEN NoErr
    ELSE rangeResult(
           IF tags.range_error = "" THEN ErrOutOfRange ELSE tags.range_error,
           CASE RangePath(typ) = "int" ->
                  validateIntRange(v, tags.min, tags.max)
             [] RangePath(typ) = "float" ->
                  validateFloatRange(v, tags.min, tags.max)
             [] OTHER -> NoErr)

\* A validator applied by name: those of the package, and two a caller
\* supplies, one accepting and one rejecting the field.
Validate(validator, typ, v, tags) ==
    CASE validator = "RequiredValidator" -> RequiredValidator(typ, v, tags)
      [] validator = "RangeValidator"    -> RangeValidator(typ, v, tags)
      [] validator = "PassValidator"     -> NoErr
      [] validator = "FailValidator"     -> <<"rejected">>

-----------------------------------------------------------------------------
(* The loader: its construction                                            *)

WithParser(l, kind, parser) ==
    [l EXCEPT !.parsers =
        [k \in (DOMAIN l.parsers) \cup {kind} |->
            IF k = kind THEN parser ELSE l.parsers[k]]]

WithValidator(l, validator) ==
    [l EXCEPT !.validators = Append(l.validators, validator)]

WithPrefix(l, prefix) == [l EXCEPT !.prefix = prefix]

\* One option applied to the loader under construction.
ApplyOption(l, o) ==
    CASE o.opt = "WithParser"    -> WithParser(l, o.kind, o.name)
      [] o.opt = "WithValidator" -> WithValidator(l, o.name)
      [] o.opt = "WithPrefix"    -> WithPrefix(l, o.name)

RECURSIVE ApplyOptions(_, _)
ApplyOptions(l, opts) ==
    IF opts = <<>> THEN l
    ELSE ApplyOptions(ApplyOption(l, Head(opts)), Tail(opts))

NewEnvLoader(opts) ==
    ApplyOptions([parsers |-> defaultParsers,
                  validators |-> <<"RequiredValidator", "RangeValidator">>,
                  prefix |-> ""],
                 opts)

PrefixOption(p) == [opt |-> "WithPrefix", kind |-> "", name |-> p]

ParserOption(kind, parser) == [opt |-> "WithParser", kind |-> kind, name |-> parser]

ValidatorOption(validator) == [opt |-> "WithValidator", kind |-> "", name |-> validator]

-----------------------------------------------------------------------------
(* The loader: one leaf field                                              *)

\* A value of the process environment: unset, or set to a string.
EnvUnset == [set |-> FALSE, val |-> <<>>]

EnvSet(s) == [set |-> TRUE, val |-> s]

\* os.Getenv(key) in environment e: "" for an unset key.
Getenv(e, key) == IF key \in DOMAIN e /\ e[key].set THEN e[key].val ELSE <<>>

\* What a step of the loader records: the operation, the field's path, the
\* key, parser or validator involved, the raw string and the error returned.
Event(op, path, name, raw, err) ==
    [op |-> op, path |-> path, name |-> name, raw |-> raw, err |-> err]

\* C2 mutant: the prefix is ignored.
getEnvKey_NoPrefix(l, envKey) == envKey

getEnvKey(l, envKey) == IF l.prefix # "" THEN l.prefix \o envKey ELSE envKey

getEnvValueWithDefault(l, e, envKey, tags) ==
    IF Getenv(e, getEnvKey(l, envKey)) = <<>> /\ tags.default # <<>>
    THEN tags.default
    ELSE Getenv(e, getEnvKey(l, envKey))

\* A result [err, v, log] or [err, log] with event ev put before its log.
After(ev, r) == [r EXCEPT !.log = <<ev>> \o @]

\* validateField from the k-th validator on: the first error ends the loop.
\* validated is the step after the k-th validator returned err.
RECURSIVE validateFrom(_, _, _, _, _, _)
RECURSIVE validated(_, _, _, _, _, _, _)
validateFrom(l, k, path, typ, v, tags) ==
    IF k > Len(l.validators) THEN [err |-> NoErr, log |-> <<>>]
    ELSE validated(l, k, path, typ, v, tags,
                   Validate(l.validators[k], typ, v, tags))

\* C16 mutant: the loop goes on to the next validator after an error.
validated_KeepGoing(l, k, path, typ, v, tags, err) ==
    After(Event("validate", path, l.validators[k], <<>>, err),
          validateFrom(l, k + 1, path, typ, v, tags))

validated(l, k, path, typ, v, tags, err) ==
    After(Event("validate", path, l.validators[k], <<>>, err),
          IF err # NoErr THEN [err |-> err, log |-> <<>>]
          ELSE validateFrom(l, k + 1, path, typ, v, tags))

validateField(l, path, typ, v, tags) == validateFrom(l, 1, path, typ, v, tags)

\* The tail shared by the three parse paths, r being what the parser gave:
\* return the parse error, or validate the parsed field.
parseThenValidate(l, path, parser, envValue, typ, tags, r) ==
    After(Event("parse", path, parser, envValue, r.err),
          IF r.err # NoErr THEN [err |-> r.err, v |-> r.v, log |-> <<>>]
          ELSE [v |-> r.v] @@ validateField(l, path, typ, r.v, tags))

parseAndValidateDuration(l, path, envValue, typ, v, tags) ==
    parseThenValidate(l, path, "DurationParser", envValue, typ, tags,
                      DurationParser(envValue, v))

parseAndValidateSlice(l, path, envValue, typ, v, tags) ==
    parseThenValidate(l, path, "SliceParser", envValue, typ, tags,
                      ParseWithContext(envValue, typ, v, l.parsers))

\* C4 mutant: a kind without parser is passed over in silence.
parseAndValidateField_SkipUnknown(l, path, envValue, typ, v, tags) ==
    IF typ = "time.Duration"
    THEN parseAndValidateDuration(l, path, envValue, typ, v, tags)
    ELSE IF KindOf(typ) = "slice"
    THEN parseAndValidateSlice(l, path, envValue, typ, v, tags)
    ELSE IF KindOf(typ) \notin DOMAIN l.parsers
    THEN [err |-> NoErr, v |-> v, log |-> <<>>]
    ELSE parseThenValidate(l, path, l.parsers[KindOf(typ)], envValue, typ, tags,
                           ParserParse(l.parsers[KindOf(typ)], envValue, typ, v))

parseAndValidateField(l, path, envValue, typ, v, tags) ==
    IF typ = "time.Duration"
    THEN parseAndValidateDuration(l, path, envValue, typ, v, tags)
    ELSE IF KindOf(typ) = "slice"
    THEN parseAndValidateSlice(l, path, envValue, typ, v, tags)
    ELSE IF KindOf(typ) \notin DOMAIN l.parsers
    THEN [err |-> <<ErrUnsupportedType, KindOf(typ)>>, v |-> v, log |-> <<>>]
    ELSE parseThenValidate(l, path, l.parsers[KindOf(typ)], envValue, typ, tags,
                           ParserParse(l.parsers[KindOf(typ)], envValue, typ, v))

\* loadField past the env tag test, envValue being the resolved raw value.
loadResolved(l, path, f, v, envValue) ==
    After(Event("getenv", path, getEnvKey(l, f.tags.env), envValue, NoErr),
          parseAndValidateField(l, path, envValue, f.typ, v, f.tags))

\* C3 mutant: a field without env tag is resolved like any other.
loadField_NoSkip(l, e, path, f, v) ==
    loadResolved(l, path, f, v, getEnvValueWithDefault(l, e, f.tags.env, f.tags))

\* loadField on the field f at `path`, holding v: the error returned, the
\* value the field holds afterwards, and what was done.
loadField(l, e, path, f, v) ==
    IF f.tags.env = "" THEN [err |-> NoErr, v |-> v, log |-> <<>>]
    ELSE loadResolved(l, path, f, v,
                      getEnvValueWithDefault(l, e, f.tags.env, f.tags))

-----------------------------------------------------------------------------
(* Structure types.  A structure type is the sequence of its fields; a     *)
(* field has a name, a type, its tags and, for a structure-typed field,    *)
(* the fields of that structure.                                           *)

Field(name, typ, tags, fields) ==
    [name |-> name, typ |-> typ, tags |-> tags, fields |-> fields]

NoTags == Tags("", "", <<>>, <<>>, <<>>, "")

\* The fields of time.Time itself (unexported, untagged).
TimeFields ==
    << Field("wall", "uint64", NoTags, <<>>),
       Field("ext", "int64", NoTags, <<>>),
       Field("loc", "ptr", NoTags, <<>>) >>

Leaf(name, typ, tags) ==
    Field(name, typ, tags, IF typ = "time.Time" THEN TimeFields ELSE <<>>)

isTimeType(typ) == typ = "time.Time"

\* C5 mutant: time.Time is not set apart from the other structures.
isNestedStruct_AnyStruct(f) == KindOf(f.typ) = "struct"

isNestedStruct(f) == KindOf(f.typ) = "struct" /\ ~isTimeType(f.typ)

\* The fields of the structure reached from structure T along `path` (a
\* sequence of field indices).
RECURSIVE FieldsAt(_, _)
FieldsAt(T, path) ==
    IF path = <<>> THEN T ELSE FieldsAt(T[Head(path)].fields, Tail(path))

\* The field of T at a non-empty path.
FieldAt(T, path) ==
    FieldsAt(T, SubSeq(path, 1, Len(path) - 1))[path[Len(path)]]

\* The paths of all fields below a sequence of fields, at any depth.
RECURSIVE PathsOf(_, _)
PathsOf(fields, prefix) ==
    UNION { {prefix \o <<i>>} \cup PathsOf(fields[i].fields, prefix \o <<i>>) :
            i \in DOMAIN fields }

\* The target maps the path of every field to its value; a structure-typed
\* field holds an opaque token, its content being its fields' own entries.
ValuePaths(T) == PathsOf(T, <<>>)

\* The target structure as the caller hands it over: fresh (all zero) or
\* with every field already set.
TargetOf(T, prior) ==
    [p \in ValuePaths(T) |->
        IF prior = "fresh" THEN ZeroOf(FieldAt(T, p).typ)
        ELSE NonZeroOf(FieldAt(T, p).typ)]

-----------------------------------------------------------------------------
(* LoadConfig as a state machine: one call c walks its target structure    *)
(* with a stack of loadStruct activations.                                 *)

Wrap(name, err) == <<"field " \o name>> \o err

Top(c) == call[c].stack[Len(call[c].stack)]

Pop(stack) == SubSeq(stack, 1, Len(stack) - 1)

\* The stack with the activation on top moved to its next field.
Advance(stack) == [stack EXCEPT ![Len(stack)].i = @ + 1]

\* The fields of the structure the activation on top is walking.
TopFields(c) == FieldsAt(call[c].T, Top(c).path)

\* C18 mutant: the call sets the key prefix of the loader it runs on.
LoadConfig_SetsPrefix(c) ==
    /\ call[c].pc = "start"
    /\ call' = [call EXCEPT ![c] =
          CASE @.arg \in {"non-pointer", "nil"} ->
                 [@ EXCEPT !.pc = "done", !.err = <<ErrConfigNotPtr>>]
            [] @.arg \in {"pointer to non-struct", "nil struct pointer"} ->
                 [@ EXCEPT !.pc = "panic"]
            [] OTHER ->
                 [@ EXCEPT !.pc = "walk", !.stack = <<[path |-> <<>>, i |-> 1]>>]]
    /\ loader' = WithPrefix(loader, "P_")
    /\ UNCHANGED <<env, vcall, pcall>>

\* EnvLoader.LoadConfig up to the call of loadStruct.  reflect panics in
\* loadStruct when the pointer is nil (Type of the zero Value) or points to a
\* value that is no structure (NumField).
LoadConfig(c) ==
    /\ call[c].pc = "start"
    /\ call' = [call EXCEPT ![c] =
          CASE @.arg \in {"non-pointer", "nil"} ->
                 [@ EXCEPT !.pc = "done", !.err = <<ErrConfigNotPtr>>]
            [] @.arg \in {"pointer to non-struct", "nil struct pointer"} ->
                 [@ EXCEPT !.pc = "panic"]
            [] OTHER ->
                 [@ EXCEPT !.pc = "walk", !.stack = <<[path |-> <<>>, i |-> 1]>>]]
    /\ UNCHANGED <<env, loader, vcall, pcall>>

\* loadStruct at a nested structure field: the recursive call.
Recurse(c) ==
    /\ call[c].pc = "walk"
    /\ Top(c).i <= Len(TopFields(c))
    /\ isNestedStruct(TopFields(c)[Top(c).i])
    /\ LET path == Top(c).path \o <<Top(c).i>>
       IN  call' = [call EXCEPT ![c] =
             [@ EXCEPT !.stack = Append(@, [path |-> path, i |-> 1]),
                       !.log = Append(@, Event("recurse", path,
                                      TopFields(c)[Top(c).i].name, <<>>, NoErr))]]
    /\ UNCHANGED <<env, loader, vcall, pcall>>

\* C6 mutant: the walk goes on to the next field after a failing one.
afterLoadField_KeepGoing(cs, path, name, r) ==
    [cs EXCEPT !.target[path] = r.v,
               !.log = @ \o r.log,
               !.err = IF r.err = NoErr THEN @ ELSE Wrap(name, r.err),
               !.stack = Advance(@)]

\* The call state cs after loadField gave r for the field `name` at `path`:
\* on to the next field or, on an error, the return of the wrapped error.
afterLoadField(cs, path, name, r) ==
    IF r.err = NoErr
    THEN [cs EXCEPT !.target[path] = r.v,
                    !.log = @ \o r.log,
                    !.stack = Advance(@)]
    ELSE [cs EXCEPT !.target[path] = r.v,
                    !.log = @ \o r.log,
                    !.err = Wrap(name, r.err),
                    !.stack = Pop(@),
                    !.pc = IF Len(cs.stack) = 1 THEN "done" ELSE "unwind"]

\* C17 mutant: the field is written in every target of the same type, as
\* if the calls shared the structure they fill.
LoadLeaf_SharedTarget(c) ==
    /\ call[c].pc = "walk"
    /\ Top(c).i <= Len(TopFields(c))
    /\ ~isNestedStruct(TopFields(c)[Top(c).i])
    /\ call' = [d \in DOMAIN call |->
          IF d = c
          THEN afterLoadField(call[c], Top(c).path \o <<Top(c).i>>,
                              TopFields(c)[Top(c).i].name,
                              loadField(loader, env, Top(c).path \o <<Top(c).i>>,
                                        TopFields(c)[Top(c).i],
                                        call[c].target[Top(c).path \o <<Top(c).i>>]))
          ELSE IF call[d].T # call[c].T THEN call[d]
          ELSE [call[d] EXCEPT !.target[Top(c).path \o <<Top(c).i>>] =
                   loadField(loader, env, Top(c).path \o <<Top(c).i>>,
                             TopFields(c)[Top(c).i],
                             call[c].target[Top(c).path \o <<Top(c).i>>]).v]]
    /\ UNCHANGED <<env, loader, vcall, pcall>>

\* loadStruct at a leaf field.
LoadLeaf(c) ==
    /\ call[c].pc = "walk"
    /\ Top(c).i <= Len(TopFields(c))
    /\ ~isNestedStruct(TopFields(c)[Top(c).i])
    /\ call' = [call EXCEPT ![c] =
          afterLoadField(@, Top(c).path \o <<Top(c).i>>,
                         TopFields(c)[Top(c).i].name,
                         loadField(loader, env, Top(c).path \o <<Top(c).i>>,
                                   TopFields(c)[Top(c).i],
                                   call[c].target[Top(c).path \o <<Top(c).i>>]))]
    /\ UNCHANGED <<env, loader, vcall, pcall>>

\* loadStruct past its last field: return nil, and the caller continues.
ReturnNil(c) ==
    /\ call[c].pc = "walk"
    /\ Top(c).i > Len(TopFields(c))
    /\ call' = [call EXCEPT ![c] =
          IF Len(@.stack) = 1
          THEN [@ EXCEPT !.stack = <<>>, !.pc = "done"]
          ELSE [@ EXCEPT !.stack = Advance(Pop(@))]]
    /\ UNCHANGED <<env, loader, vcall, pcall>>

\* loadStruct receiving an error from its recursive call: wrap and return.
ReturnErr(c) ==
    /\ call[c].pc = "unwind"
    /\ call' = [call EXCEPT ![c] =
          [@ EXCEPT !.err = Wrap(TopFields(c)[Top(c).i].name, @),
                    !.stack = Pop(@),
                    !.pc = IF Len(call[c].stack) = 1 THEN "done" ELSE "unwind"]]
    /\ UNCHANGED <<env, loader, vcall, pcall>>

-----------------------------------------------------------------------------
(* Direct calls of a validator, as the package's callers and tests make    *)
(* them: Validate(field, tags) on a value of some type.                    *)

NoVCall ==
    [validator |-> "", typ |-> "", v |-> 0, tags |-> NoTags, pc |-> "idle",
     err |-> NoErr]

ValidateCall ==
    /\ vcall.pc = "ready"
    /\ vcall' = [vcall EXCEPT
          !.pc = "done",
          !.err = Validate(vcall.validator, vcall.typ, vcall.v, vcall.tags)]
    /\ UNCHANGED <<env, loader, call, pcall>>

-----------------------------------------------------------------------------
(* Direct calls of a parser, as the package's callers and tests make them: *)
(* Parse(value, field), or SliceParser.ParseWithContext with a provider of *)
(* element parsers, repeated on the same field with the same value.        *)

\* A field is parsed into at most this many times in a row.
MaxParseCalls == 2

NoPCall ==
    [parser |-> "", method |-> "", typ |-> "", raw |-> <<>>,
     provider |-> defaultParsers, prior |-> 0, v |-> 0, hist |-> <<>>,
     pc |-> "idle"]

\* The parser call after the parser gave r: the field holds r.v, and the
\* returned error is noted with it.
afterParse(pc, r) == [pc EXCEPT !.v = r.v, !.hist = Append(@, r)]

\* parser.Parse(value, field).
ParseCall ==
    /\ pcall.pc = "ready"
    /\ pcall.method = "Parse"
    /\ Len(pcall.hist) < MaxParseCalls
    /\ pcall' = afterParse(pcall, ParserParse(pcall.parser, pcall.raw,
                                                pcall.typ, pcall.v))
    /\ UNCHANGED <<env, loader, call, vcall>>

\* sliceParser.ParseWithContext(value, field, provider).
ParseWithContextCall ==
    /\ pcall.pc = "ready"
    /\ pcall.method = "ParseWithContext"
    /\ Len(pcall.hist) < MaxParseCalls
    /\ pcall' = afterParse(pcall, ParseWithContext(pcall.raw, pcall.typ,
                                                     pcall.v, pcall.provider))
    /\ UNCHANGED <<env, loader, call, vcall>>

-----------------------------------------------------------------------------
(* Bounds and inputs of the loader specification                           *)

\* Environment values are all strings over RawAlphabet up to this length.
MaxRawLen == 2

RawAlphabet == {"0", "1", "x", ","}

RawStrings == UNION { [1..n -> RawAlphabet] : n \in 0..MaxRawLen }

EnvKeys == {"A", "B", "P_A", "P_B"}

\* What each key of the environment may hold.
EnvValues(key) ==
    CASE key = "A"   -> {EnvUnset, EnvSet(<<"1", ",", "x">>)}
                        \cup {EnvSet(s) : s \in RawStrings}
      [] key = "B"   -> {EnvUnset, EnvSet(<<"1">>), EnvSet(<<"x">>)}
      [] key = "P_A" -> {EnvUnset, EnvSet(<<>>), EnvSet(<<"1">>)}
      [] key = "P_B" -> {EnvUnset, EnvSet(<<"0">>)}

Environments ==
    [A : EnvValues("A"), B : EnvValues("B"), P_A : EnvValues("P_A"),
     P_B : EnvValues("P_B")]

LoaderOptions == { <<>>, <<PrefixOption("P_")>> }

ReqTags == Tags("A", "true", <<>>, <<>>, <<>>, "")

PlainTags == Tags("A", "", <<>>, <<>>, <<>>, "")

DefTags == Tags("A", "", <<"1">>, <<>>, <<>>, "")

RangeTags == Tags("A", "", <<>>, <<"1">>, <<"1", "0">>, "")

ReqRangeTags == Tags("A", "true", <<>>, <<"1">>, <<"1", "0">>, "port out of range")

InertTags == Tags("", "true", <<"x">>, <<"1">>, <<"0">>, "")

\* struct { First <typ> <tags>; Last int `env:"B"` }
Single(typ, tags) ==
    << Leaf("First", typ, tags),
       Leaf("Last", "int", Tags("B", "", <<>>, <<>>, <<>>, "")) >>

ParseableTypes ==
    {"string", "int", "int64", "bool", "float64", "time.Duration", "MyInt",
     "[]string", "[]int64"}

\* A structure with nested structures (one of them behind an annotated
\* field, one two levels deep) and an untagged time.Time.
CfgApp ==
    << Leaf("Name", "string", ReqTags),
       Field("Database", "struct", Tags("B", "true", <<"x">>, <<>>, <<>>, ""),
             << Leaf("Host", "string", Tags("B", "", <<"1">>, <<>>, <<>>, "")),
                Leaf("Port", "int", RangeTags) >>),
       Leaf("Created", "time.Time", NoTags),
       Field("Server", "struct", NoTags,
             << Field("Inner", "struct", NoTags,
                      << Leaf("Limit", "int64", Tags("B", "true", <<>>, <<>>, <<>>, "")) >>),
                Leaf("Tail", "bool", PlainTags) >>),
       Leaf("Debug", "bool", Tags("B", "", <<>>, <<>>, <<>>, "")) >>

ConfigTypes ==
    {Single(t, ReqTags) : t \in ParseableTypes \cup {"complex64"}}
    \cup {Single(t, PlainTags) :
            t \in {"string", "complex64", "time.Time", "[]complex64", "[]int64"}}
    \cup {Single(t, DefTags) : t \in {"string", "int", "[]string"}}
    \cup {Single(t, RangeTags) :
            t \in {"int", "float64", "time.Duration", "MyInt", "string"}}
    \cup {Single("int", ReqRangeTags)}
    \cup {Single(t, InertTags) :
            t \in {"string", "int", "complex64", "time.Time", "[]string"}}
    \cup {CfgApp}

ArgKinds ==
    {"struct pointer", "non-pointer", "nil", "pointer to non-struct",
     "nil struct pointer"}

\* A call about to be made: its argument, and for a structure the type and
\* the content of the target.
NewCall(arg, T, prior) ==
    [arg |-> arg, T |-> T, prior |-> TargetOf(T, prior),
     target |-> TargetOf(T, prior), pc |-> "start", stack |-> <<>>,
     err |-> NoErr, log |-> <<>>]

\* The calls LoadConfig may be given: every structure type with a fresh or
\* a filled target, and the arguments that are no pointer to a structure.
NewCalls ==
    {NewCall("struct pointer", T, prior) :
        T \in ConfigTypes, prior \in {"fresh", "filled"}}
    \cup {NewCall(arg, CfgApp, "filled") : arg \in ArgKinds \ {"struct pointer"}}

\* The calls in progress: one LoadConfig call.
Calls == {"c1"}

Init ==
    /\ env \in Environments
    /\ loader \in {NewEnvLoader(opts) : opts \in LoaderOptions}
    /\ call \in [Calls -> NewCalls]
    /\ vcall = NoVCall
    /\ pcall = NoPCall

Next ==
    \E c \in Calls :
        \/ LoadConfig(c)
        \/ Recurse(c)
        \/ LoadLeaf(c)
        \/ ReturnNil(c)
        \/ ReturnErr(c)

Spec == Init /\ [][Next]_vars

-----------------------------------------------------------------------------
(* Inputs of the specification of loaders built with options               *)

\* The option lists NewEnvLoader is given: parsers replacing a default,
\* named twice for one kind, added for a new kind, given for the slice
\* kind; validators appended in either order, the required validator
\* appended again.
CustomOptions ==
    { <<>>,
      <<ParserOption("int", "CustomParserA")>>,
      <<ParserOption("int64", "CustomParserA"), ParserOption("int64", "CustomParserB")>>,
      <<ParserOption("complex64", "CustomParserA")>>,
      <<ParserOption("slice", "CustomParserB")>>,
      <<ParserOption("string", "CustomParserA"), PrefixOption("P_")>>,
      <<ValidatorOption("PassValidator"), ValidatorOption("FailValidator")>>,
      <<ValidatorOption("FailValidator"), ValidatorOption("PassValidator")>>,
      <<ValidatorOption("PassValidator"), ValidatorOption("RequiredValidator")>> }

EnvironmentsO ==
    [A : {EnvUnset, EnvSet(<<"0">>), EnvSet(<<"1">>), EnvSet(<<"x">>),
          EnvSet(<<"1", ",", "1">>)},
     B : {EnvUnset, EnvSet(<<"1">>)},
     P_A : {EnvUnset, EnvSet(<<"1">>)},
     P_B : {EnvUnset}]

InitO ==
    /\ env \in EnvironmentsO
    /\ loader \in {NewEnvLoader(opts) : opts \in CustomOptions}
    /\ call \in [Calls -> NewCalls]
    /\ vcall = NoVCall
    /\ pcall = NoPCall

SpecO == InitO /\ [][Next]_vars

-----------------------------------------------------------------------------
(* Inputs of the specification of concurrent calls: two goroutines call    *)
(* LoadConfig on one loader, each with its own target, and their steps     *)
(* interleave.  The loader is built before and the environment is not      *)
(* changed meanwhile.                                                      *)

Callers == {"c1", "c2"}

ConcurrentTypes ==
    {CfgApp, Single("int", ReqRangeTags), Single("[]int64", PlainTags),
     Single("string", DefTags), Single("complex64", PlainTags)}

ConcurrentCalls ==
    {NewCall("struct pointer", T, prior) :
        T \in ConcurrentTypes, prior \in {"fresh", "filled"}}

EnvironmentsC ==
    [A : {EnvUnset, EnvSet(<<"1">>), EnvSet(<<"x">>)},
     B : {EnvUnset, EnvSet(<<"1">>)},
     P_A : {EnvSet(<<"0">>)},
     P_B : {EnvUnset}]

InitC ==
    /\ env \in EnvironmentsC
    /\ loader \in {NewEnvLoader(opts) : opts \in LoaderOptions}
    /\ call \in [Callers -> ConcurrentCalls]
    /\ vcall = NoVCall
    /\ pcall = NoPCall

NextC ==
    \E c \in Callers :
        \/ LoadConfig(c)
        \/ Recurse(c)
        \/ LoadLeaf(c)
        \/ ReturnNil(c)
        \/ ReturnErr(c)

SpecC == InitC /\ [][NextC]_vars

-----------------------------------------------------------------------------
(* Bounds and inputs of the validator specification                        *)

\* Integer values of fields range over -MaxVal..MaxVal.
MaxVal == 2

IntTypes == {"int", "int64", "time.Duration", "MyInt"}

FloatValues ==
    {FloatNum(n, 1) : n \in (0 - MaxVal)..MaxVal}
    \cup {FloatNum(-5, 10), FloatNum(5, 10), FloatNum(15, 10), FloatNaN}

\* The values a field of each type may hold when it is validated.
ValuesOf(typ) ==
    CASE typ \in IntTypes   -> (0 - MaxVal)..MaxVal
      [] typ = "float64"    -> FloatValues
      [] typ = "string"     -> {<<>>, <<"a">>}
      [] typ = "bool"       -> BOOLEAN
      [] typ = "[]string"   -> {SliceVal(TRUE, <<>>), SliceVal(FALSE, <<>>),
                                SliceVal(FALSE, << <<>> >>),
                                SliceVal(FALSE, << <<"a">>, <<>> >>)}
      [] typ = "[]int64"    -> {SliceVal(TRUE, <<>>), SliceVal(FALSE, <<>>),
                                SliceVal(FALSE, <<0>>)}
      [] OTHER              -> {"zero", "set"}

ValidatedTypes ==
    IntTypes \cup {"float64", "string", "bool", "[]string", "[]int64",
                   "complex64", "time.Time"}

RequiredLits == {"", "true", "false", "TRUE", "1"}

BoundLits ==
    { <<>>, <<"0">>, <<"1">>, <<"-", "1">>, <<"0", ".", "5">>, <<"x">> }

VCall(validator, typ, v, tags) ==
    [validator |-> validator, typ |-> typ, v |-> v, tags |-> tags,
     pc |-> "ready", err |-> NoErr]

\* The calls of a validator on a field of type typ: the required validator
\* with every required tag, the range validator with every pair of bounds.
ValidatorInputs(typ) ==
    {VCall("RequiredValidator", typ, v, Tags("A", req, <<>>, mn, <<>>, "")) :
        v \in ValuesOf(typ), req \in RequiredLits, mn \in {<<>>, <<"1">>}}
    \cup
    {VCall("RangeValidator", typ, v, Tags("A", "", <<>>, mn, mx, msg)) :
        v \in ValuesOf(typ), mn \in BoundLits, mx \in BoundLits,
        msg \in {"", "custom error"}}

InitV ==
    /\ env = [k \in EnvKeys |-> EnvUnset]
    /\ loader = NewEnvLoader(<<>>)
    /\ call = <<>>
    /\ \E typ \in ValidatedTypes : vcall \in ValidatorInputs(typ)
    /\ pcall = NoPCall

NextV == ValidateCall

SpecV == InitV /\ [][NextV]_vars

-----------------------------------------------------------------------------
(* Bounds and inputs of the parser specification                           *)

\* Numeric literals are written for the integers -MaxNum..MaxNum.
MaxNum == 12

\* The base-10 numeral of a natural number, and of an integer.
RECURSIVE FormatNat(_)
FormatNat(n) ==
    IF n < 10 THEN <<Digits[n + 1]>>
    ELSE FormatNat(n \div 10) \o <<Digits[(n % 10) + 1]>>

FormatInt(n) == IF n < 0 THEN <<"-">> \o FormatNat(0 - n) ELSE FormatNat(n)

\* The decimal numeral with one fraction digit f of sign * (ip + f/10).
FormatDec(neg, ip, f) ==
    (IF neg THEN <<"-">> ELSE <<>>) \o FormatNat(ip) \o <<".">> \o FormatNat(f)

IntLits ==
    {FormatInt(n) : n \in (0 - MaxNum)..MaxNum}
    \cup {<<"+">> \o FormatNat(n) : n \in 0..MaxNum}
    \cup {<<"0", "7">>, <<"-", "0">>, <<"3", "0">>}

FloatLits ==
    IntLits \cup {FormatDec(neg, ip, f) : neg \in BOOLEAN, ip \in 0..2, f \in 0..9}

DurationUnits == { <<"m", "s">>, <<"s">>, <<"m">>, <<"h">> }

DurationLits ==
    {FormatInt(n) \o u : n \in (0 - MaxNum)..MaxNum, u \in DurationUnits}
    \cup {FormatDec(neg, ip, 5) \o <<"s">> : neg \in BOOLEAN, ip \in 0..2}
    \cup {FormatNat(h) \o <<"h">> \o FormatNat(m) \o <<"m">> : h \in 1..2, m \in 0..MaxNum}

\* Raw strings that are no literal of any numeric kind.
WordLits ==
    { <<"i", "n", "v", "a", "l", "i", "d">>, <<"a", ",", "b", ",", "c">>,
      <<"1", "0", ",", "-", "2", ",", ",", "3">>, <<"1", ",", "t", "w", "o">>,
      <<"5", "x">>, <<"1", "s", "s">>, <<"-">>, <<" ", "1">> }

\* What each scalar parser of the package is given, and the type of field
\* it is given it for.
ScalarParsers ==
    {"StringParser", "Int64Parser", "IntParser", "BoolParser", "Float64Parser",
     "DurationParser"}

TypesOf(parser) ==
    CASE parser = "StringParser"   -> {"string"}
      [] parser = "Int64Parser"    -> {"int64"}
      [] parser = "IntParser"      -> {"int", "MyInt"}
      [] parser = "BoolParser"     -> {"bool"}
      [] parser = "Float64Parser"  -> {"float64"}
      [] parser = "DurationParser" -> {"time.Duration"}
      [] parser = "SliceParser"    -> {"[]string", "[]int64", "[]complex64"}

LitsOf(parser) ==
    RawStrings \cup WordLits \cup
    CASE parser = "BoolParser"     -> BoolTrueLits \cup BoolFalseLits
      [] parser = "Float64Parser"  -> FloatLits \cup NaNLits
      [] parser = "DurationParser" -> IntLits \cup DurationLits
      [] OTHER                     -> IntLits

\* The tables a caller may hand to ParseWithContext as provider: the
\* loader's default table, and one without parsers for int64.
Providers ==
    {defaultParsers,
     [k \in {"string", "int", "bool"} |-> defaultParsers[k]]}

PCall(parser, method, typ, raw, provider, prior) ==
    [parser |-> parser, method |-> method, typ |-> typ, raw |-> raw,
     provider |-> provider, prior |-> prior, v |-> prior, hist |-> <<>>,
     pc |-> "ready"]

\* The calls of a parser: on a zero field and on a field already set.
ParserInputs(parser, typ) ==
    {PCall(parser, "Parse", typ, raw, defaultParsers, prior) :
        raw \in LitsOf(parser), prior \in {ZeroOf(typ), NonZeroOf(typ)}}
    \cup
    (IF parser # "SliceParser" THEN {}
     ELSE {PCall(parser, "ParseWithContext", typ, raw, provider, prior) :
             raw \in LitsOf(parser), provider \in Providers,
             prior \in {ZeroOf(typ), NonZeroOf(typ)}})

InitP ==
    /\ env = [k \in EnvKeys |-> EnvUnset]
    /\ loader = NewEnvLoader(<<>>)
    /\ call = <<>>
    /\ vcall = NoVCall
    /\ \E parser \in ScalarParsers \cup {"SliceParser"} :
          \E typ \in TypesOf(parser) : pcall \in ParserInputs(parser, typ)

NextP == ParseCall \/ ParseWithContextCall

SpecP == InitP /\ [][NextP]_vars

-----------------------------------------------------------------------------
(* Vocabulary of the properties                                            *)

\* The leaf fields of a structure in depth-first declared order: a plain
\* nested structure contributes its own leaves, every other field itself.
RECURSIVE LeafOrderFrom(_, _, _)
LeafOrderFrom(fields, prefix, i) ==
    IF i > Len(fields) THEN <<>>
    ELSE (IF fields[i].typ = "struct"
          THEN LeafOrderFrom(fields[i].fields, prefix \o <<i>>, 1)
          ELSE << prefix \o <<i>> >>)
         \o LeafOrderFrom(fields, prefix, i + 1)

LeafOrder(T) == LeafOrderFrom(T, <<>>, 1)

LeafPaths(T) == {LeafOrder(T)[k] : k \in DOMAIN LeafOrder(T)}

\* The paths of the plain nested structure fields of T.
StructPaths(T) == {p \in PathsOf(T, <<>>) : FieldAt(T, p).typ = "struct"}

\* "field N1", ..., "field Nk" for the fields along path p, outermost first.
RECURSIVE ErrNames(_, _)
ErrNames(fields, p) ==
    IF p = <<>> THEN <<>>
    ELSE <<"field " \o fields[Head(p)].name>>
         \o ErrNames(fields[Head(p)].fields, Tail(p))

\* The indices of the events of call c at path p whose operation is in ops.
EventsAt(c, p, ops) ==
    {i \in DOMAIN call[c].log : call[c].log[i].path = p /\ call[c].log[i].op \in ops}

LeafOps == {"getenv", "parse", "validate"}

\* Call c was given a pointer to a structure and has returned.
Returned(c) == call[c].arg = "struct pointer" /\ call[c].pc = "done"

\* The error call c returned names the leaf at path p as the failing field.
FailedAt(c, p) ==
    /\ Returned(c)
    /\ Len(call[c].err) > Len(p)
    /\ SubSeq(call[c].err, 1, Len(p)) = ErrNames(call[c].T, p)

\* The position in LeafOrder of the leaf at path p.
LeafIndex(T, p) == CHOOSE k \in DOMAIN LeafOrder(T) : LeafOrder(T)[k] = p

\* Call c has returned and its walk came to the leaf at path p: no field
\* failed, or the failing one is p or comes after it.
Reached(c, p) ==
    /\ Returned(c)
    /\ \/ call[c].err = NoErr
       \/ \E q \in LeafPaths(call[c].T) :
             FailedAt(c, q) /\ LeafIndex(call[c].T, p) <= LeafIndex(call[c].T, q)

-----------------------------------------------------------------------------
(* C1: LoadConfig given anything but a pointer to a structure (a           *)
(* non-pointer, nil, a pointer to a non-structure, a nil structure         *)
(* pointer) returns the error "config must be a pointer" and parses,       *)
(* validates and changes nothing.  The code panics for the last two.       *)
C1_BadArgumentIsUsageError ==
    \A c \in Calls :
        (call[c].arg # "struct pointer" /\ call[c].pc # "start") =>
            /\ call[c].pc = "done"
            /\ call[c].err = <<ErrConfigNotPtr>>
            /\ call[c].log = <<>>
            /\ call[c].target = call[c].prior

-----------------------------------------------------------------------------
(* C2: the raw value handed to the parser of an env-annotated leaf with    *)
(* key K under prefix P is the environment value of P+K if that is         *)
(* non-empty, else the default literal if that is non-empty, else the      *)
(* empty string; a key set to "" counts as unset, and the unprefixed key   *)
(* plays no part under a non-empty prefix.                                 *)
C2_Expected(f) ==
    IF env[loader.prefix \o f.tags.env].set
       /\ env[loader.prefix \o f.tags.env].val # <<>>
    THEN env[loader.prefix \o f.tags.env].val
    ELSE IF f.tags.default # <<>> THEN f.tags.default
    ELSE <<>>

C2_RawValueResolution ==
    \A c \in Calls : \A i \in DOMAIN call[c].log :
        call[c].log[i].op = "parse" =>
            call[c].log[i].raw = C2_Expected(FieldAt(call[c].T, call[c].log[i].path))

\* A parser was handed the default under prefix "P_": P_A is set to "" and
\* the unprefixed A holds another value.
C2_Witness ==
    \E c \in Calls : \E i \in DOMAIN call[c].log :
        /\ call[c].log[i].op = "parse"
        /\ loader.prefix = "P_"
        /\ env["P_A"] = EnvSet(<<>>)
        /\ env["A"] = EnvSet(<<"x">>)
        /\ FieldAt(call[c].T, call[c].log[i].path).tags.env = "A"
        /\ FieldAt(call[c].T, call[c].log[i].path).tags.default = <<"1">>
        /\ call[c].log[i].raw = <<"1">>

-----------------------------------------------------------------------------
(* C3: a leaf field without env tag is inert: it keeps the value it had    *)
(* before the call, nothing is resolved, parsed or validated for it, and   *)
(* no error names it, whatever its other tags and its kind.                *)
C3_InertField ==
    \A c \in Calls : \A p \in LeafPaths(call[c].T) :
        FieldAt(call[c].T, p).tags.env = "" =>
            /\ call[c].target[p] = call[c].prior[p]
            /\ EventsAt(c, p, LeafOps) = {}
            /\ ~FailedAt(c, p)

\* A call returned nil after walking past an untagged complex64 field that
\* is tagged required, default, min and max and was set before the call.
C3_Witness ==
    \E c \in Calls :
        /\ Returned(c)
        /\ call[c].err = NoErr
        /\ call[c].T = Single("complex64", InertTags)
        /\ call[c].target[<<1>>] = "set"
        /\ EventsAt(c, <<2>>, {"parse"}) # {}

-----------------------------------------------------------------------------
(* C4: an env-annotated leaf that is neither a duration nor a sequence and *)
(* whose kind has no parser makes LoadConfig fail, whatever the raw value, *)
(* with "unsupported type" and the kind; it is neither parsed nor          *)
(* validated and keeps its value.                                          *)
C4_Unsupported(f) ==
    /\ f.tags.env # ""
    /\ f.typ # "time.Duration"
    /\ KindOf(f.typ) # "slice"
    /\ KindOf(f.typ) \notin DOMAIN loader.parsers

C4_UnsupportedType ==
    \A c \in Calls : \A p \in LeafPaths(call[c].T) :
        C4_Unsupported(FieldAt(call[c].T, p)) =>
            /\ EventsAt(c, p, {"parse", "validate"}) = {}
            /\ call[c].target[p] = call[c].prior[p]
            /\ Returned(c) => call[c].err # NoErr
            /\ Reached(c, p) =>
                  call[c].err = ErrNames(call[c].T, p)
                     \o <<ErrUnsupportedType, KindOf(FieldAt(call[c].T, p).typ)>>

\* A call failed on a complex64 field whose raw value was empty.
C4_Witness ==
    \E c \in Calls :
        /\ Returned(c)
        /\ call[c].T = Single("complex64", PlainTags)
        /\ call[c].err = <<"field First", ErrUnsupportedType, "complex64">>
        /\ \E i \in EventsAt(c, <<1>>, {"getenv"}) : call[c].log[i].raw = <<>>

-----------------------------------------------------------------------------
(* C5: the walk recurses into a field exactly when it is a structure other *)
(* than time.Time: such a field is recursed into with or without env tag   *)
(* and never resolved, parsed or validated; a time.Time field is never     *)
(* recursed into and is a leaf, inert without env tag.                     *)
C5_RecursionExactlyIntoStructs ==
    \A c \in Calls :
        /\ \A i \in DOMAIN call[c].log :
              call[c].log[i].op = "recurse" =>
                  FieldAt(call[c].T, call[c].log[i].path).typ = "struct"
        /\ \A p \in StructPaths(call[c].T) :
              /\ EventsAt(c, p, LeafOps) = {}
              /\ (Returned(c) /\ call[c].err = NoErr) =>
                    EventsAt(c, p, {"recurse"}) # {}
        /\ \A p \in LeafPaths(call[c].T) :
              FieldAt(call[c].T, p).typ = "time.Time" =>
                  /\ EventsAt(c, p, {"recurse"}) = {}
                  /\ IF FieldAt(call[c].T, p).tags.env = ""
                     THEN EventsAt(c, p, LeafOps) = {}
                     ELSE Reached(c, p) => EventsAt(c, p, {"getenv"}) # {}

\* A call returned nil having recursed into the annotated Database, into
\* Server and into Server.Inner, and past the untagged time.Time.
C5_Witness ==
    \E c \in Calls :
        /\ Returned(c)
        /\ call[c].err = NoErr
        /\ call[c].T = CfgApp
        /\ FieldAt(CfgApp, <<2>>).tags.env = "B"
        /\ EventsAt(c, <<2>>, {"recurse"}) # {}
        /\ EventsAt(c, <<4>>, {"recurse"}) # {}
        /\ EventsAt(c, <<4, 1>>, {"recurse"}) # {}
        /\ FieldAt(CfgApp, <<3>>).typ = "time.Time"
        /\ EventsAt(c, <<5>>, {"parse"}) # {}

-----------------------------------------------------------------------------
(* C6: a failing call is decided by the first failing leaf in depth-first  *)
(* declared order: the one error names the enclosing fields outermost      *)
(* first, then the failing field, then the cause; the leaves before it     *)
(* hold what was loaded into them; the fields after it, at every level,    *)
(* are not resolved, parsed, validated or recursed into and keep their     *)
(* prior value.                                                            *)

\* What loading the k-th leaf of call c's structure gives on its own.
C6_LoadOf(c, k) ==
    loadField(loader, env, LeafOrder(call[c].T)[k],
              FieldAt(call[c].T, LeafOrder(call[c].T)[k]),
              call[c].prior[LeafOrder(call[c].T)[k]])

\* Every leaf below the structure field at path q comes after the k-th.
C6_WhollyAfter(T, q, k) ==
    \A j \in DOMAIN LeafOrder(T) :
        (Len(LeafOrder(T)[j]) > Len(q) /\ SubSeq(LeafOrder(T)[j], 1, Len(q)) = q)
            => j > k

C6_FirstFailureDecides ==
    \A c \in Calls :
        (Returned(c) /\ call[c].err # NoErr) =>
            \E k \in DOMAIN LeafOrder(call[c].T) :
                /\ \A j \in 1..(k - 1) :
                      /\ C6_LoadOf(c, j).err = NoErr
                      /\ call[c].target[LeafOrder(call[c].T)[j]] = C6_LoadOf(c, j).v
                /\ C6_LoadOf(c, k).err # NoErr
                /\ call[c].err = ErrNames(call[c].T, LeafOrder(call[c].T)[k])
                                   \o C6_LoadOf(c, k).err
                /\ \A j \in (k + 1)..Len(LeafOrder(call[c].T)) :
                      /\ call[c].target[LeafOrder(call[c].T)[j]]
                            = call[c].prior[LeafOrder(call[c].T)[j]]
                      /\ EventsAt(c, LeafOrder(call[c].T)[j], LeafOps) = {}
                /\ \A q \in StructPaths(call[c].T) :
                      C6_WhollyAfter(call[c].T, q, k) =>
                          EventsAt(c, q, {"recurse"}) = {}

\* A call on a fresh structure failed on Server.Inner.Limit: Name, Host and
\* Port hold what was parsed, Server.Tail and Debug were not touched though
\* the environment holds a value for Tail.
C6_Witness ==
    \E c \in Calls :
        /\ Returned(c)
        /\ call[c].T = CfgApp
        /\ call[c].prior = TargetOf(CfgApp, "fresh")
        /\ loader.prefix = ""
        /\ env["A"] = EnvSet(<<"1">>)
        /\ call[c].err = <<"field Server", "field Inner", "field Limit",
                           ErrRequiredField>>
        /\ call[c].target[<<1>>] = <<"1">>
        /\ call[c].target[<<2, 1>>] = <<"1">>
        /\ call[c].target[<<2, 2>>] = 1
        /\ call[c].target[<<4, 2>>] = FALSE
        /\ EventsAt(c, <<4, 2>>, LeafOps) = {}
        /\ EventsAt(c, <<5>>, LeafOps) = {}

-----------------------------------------------------------------------------
(* C7: RequiredValidator fails, with the required-field error, exactly     *)
(* when the required tag is the literal "true" and the value is the zero   *)
(* value of its type: empty text, integer 0, float 0, a sequence of length *)
(* zero (nil or not), false, the zero duration.  With any other required   *)
(* tag it passes for every value.                                          *)

\* The zero values, type by type.
ZeroValued(typ, v) ==
    CASE typ = "string"                                   -> v = <<>>
      [] typ \in {"int", "int64", "MyInt", "time.Duration"} -> v = 0
      [] typ = "float64"                                  -> ~v.nan /\ v.n = 0
      [] typ = "bool"                                     -> v = FALSE
      [] typ \in {"[]string", "[]int64", "[]complex64"}   -> v.elems = <<>>
      [] OTHER                                            -> v = "zero"

C7_RequiredIffZero ==
    (vcall.pc = "done" /\ vcall.validator = "RequiredValidator") =>
        vcall.err = IF vcall.tags.required = "true"
                       /\ ZeroValued(vcall.typ, vcall.v)
                    THEN <<ErrRequiredField>>
                    ELSE NoErr

\* The validator rejected a required sequence that is empty but not nil.
C7_Witness ==
    /\ vcall.pc = "done"
    /\ vcall.validator = "RequiredValidator"
    /\ vcall.tags.required = "true"
    /\ vcall.typ = "[]string"
    /\ vcall.v = SliceVal(FALSE, <<>>)
    /\ vcall.err = <<ErrRequiredField>>

-----------------------------------------------------------------------------
(* C8: a required env-annotated leaf without default, on the default       *)
(* loader.                                                                 *)

C8_Subject(f) ==
    /\ f.tags.env # ""
    /\ f.tags.required = "true"
    /\ f.tags.default = <<>>

\* C8 as stated, for the kinds the loader supports: an empty raw value fails
\* the load with the required-field error; a non-empty raw value that
\* parses makes the load of the field succeed.
C8_EmptyFailsNonEmptySucceeds ==
    \A c \in Calls : \A p \in LeafPaths(call[c].T) :
        (/\ Returned(c)
         /\ C8_Subject(FieldAt(call[c].T, p))
         /\ ~C4_Unsupported(FieldAt(call[c].T, p))) =>
            /\ \A i \in EventsAt(c, p, {"getenv"}) :
                  call[c].log[i].raw = <<>> =>
                      call[c].err = ErrNames(call[c].T, p) \o <<ErrRequiredField>>
            /\ \A i \in EventsAt(c, p, {"parse"}) :
                  (call[c].log[i].raw # <<>> /\ call[c].log[i].err = NoErr) =>
                      ~FailedAt(c, p)

\* C8 as the code has it: the requirement is tested on the value the field
\* holds after parsing.  Parsing an empty raw value leaves a field as it was
\* (a text field becomes empty); the load fails with the required-field
\* error exactly when the value after parsing is the zero value, "0", "false"
\* or "0s" included; otherwise the load of the field succeeds unless a
\* declared min or max rejects the value.
C8_RequiredTestsParsedValue ==
    \A c \in Calls : \A p \in LeafPaths(call[c].T) :
        C8_Subject(FieldAt(call[c].T, p)) =>
            \A i \in EventsAt(c, p, {"parse"}) :
                call[c].log[i].err = NoErr =>
                    /\ call[c].log[i].raw = <<>> =>
                          call[c].target[p] =
                              IF FieldAt(call[c].T, p).typ = "string" THEN <<>>
                              ELSE call[c].prior[p]
                    /\ ZeroValued(FieldAt(call[c].T, p).typ, call[c].target[p])
                       <=> \E j \in EventsAt(c, p, {"validate"}) :
                              /\ call[c].log[j].name = "RequiredValidator"
                              /\ call[c].log[j].err = <<ErrRequiredField>>
                    /\ (Returned(c)
                        /\ ZeroValued(FieldAt(call[c].T, p).typ, call[c].target[p])) =>
                          call[c].err = ErrNames(call[c].T, p) \o <<ErrRequiredField>>
                    /\ (Returned(c)
                        /\ ~ZeroValued(FieldAt(call[c].T, p).typ, call[c].target[p])
                        /\ FieldAt(call[c].T, p).tags.min = <<>>
                        /\ FieldAt(call[c].T, p).tags.max = <<>>) =>
                          ~FailedAt(c, p)

\* A required int field failed the requirement on the raw value "0".
C8_Witness ==
    \E c \in Calls :
        /\ Returned(c)
        /\ call[c].T = Single("int", ReqTags)
        /\ call[c].err = <<"field First", ErrRequiredField>>
        /\ \E i \in EventsAt(c, <<1>>, {"parse"}) :
              call[c].log[i].raw = <<"0">> /\ call[c].log[i].err = NoErr

-----------------------------------------------------------------------------
(* C9: for an int, int64 or float64 value v and well-formed bounds,        *)
(* RangeValidator passes exactly when (no min or v >= min) and (no max or  *)
(* v <= max); when it fails the error begins with the range_error text, or *)
(* with "value out of range" if none is declared, and wraps the detail     *)
(* naming the violated bound.  The code lets the float NaN pass.           *)

C9_WellFormed(typ, lit) ==
    lit = <<>> \/ (IF typ = "float64" THEN ParseFloat(lit).ok ELSE ParseInt(lit).ok)

C9_AtLeast(typ, v, lit) ==
    IF typ = "float64"
    THEN /\ ~v.nan
         /\ ~ParseFloat(lit).v.nan
         /\ v.n * ParseFloat(lit).v.d >= ParseFloat(lit).v.n * v.d
    ELSE v >= ParseInt(lit).v

C9_AtMost(typ, v, lit) ==
    IF typ = "float64"
    THEN /\ ~v.nan
         /\ ~ParseFloat(lit).v.nan
         /\ v.n * ParseFloat(lit).v.d <= ParseFloat(lit).v.n * v.d
    ELSE v <= ParseInt(lit).v

C9_InRange(typ, v, tags) ==
    /\ tags.min = <<>> \/ C9_AtLeast(typ, v, tags.min)
    /\ tags.max = <<>> \/ C9_AtMost(typ, v, tags.max)

C9_Subject ==
    /\ vcall.pc = "done"
    /\ vcall.validator = "RangeValidator"
    /\ vcall.typ \in {"int", "int64", "float64"}
    /\ C9_WellFormed(vcall.typ, vcall.tags.min)
    /\ C9_WellFormed(vcall.typ, vcall.tags.max)

C9_PassesIffWithinBounds ==
    C9_Subject =>
        IF C9_InRange(vcall.typ, vcall.v, vcall.tags)
        THEN vcall.err = NoErr
        ELSE /\ Len(vcall.err) = 2
             /\ vcall.err[1] = (IF vcall.tags.range_error # ""
                                THEN vcall.tags.range_error ELSE ErrOutOfRange)
             /\ vcall.err[2] \in {"value is less than minimum",
                                  "value is greater than maximum"}

-----------------------------------------------------------------------------
(* C10: with a min or max declared, RangeValidator compares the value with *)
(* the bounds exactly when the field's kind is integer or floating-point:  *)
(* int, int64 and named integer types such as time.Duration on the integer *)
(* path, floats on the float path, any other kind passes unexamined.  The  *)
(* code passes named integer types unexamined.                             *)
C10_CheckedByKind ==
    (/\ vcall.pc = "done"
     /\ vcall.validator = "RangeValidator"
     /\ vcall.tags.min # <<>> \/ vcall.tags.max # <<>>) =>
        vcall.err =
            CASE KindOf(vcall.typ) \in {"int", "int64"} ->
                   rangeResult(IF vcall.tags.range_error = "" THEN ErrOutOfRange
                               ELSE vcall.tags.range_error,
                               validateIntRange(vcall.v, vcall.tags.min, vcall.tags.max))
              [] KindOf(vcall.typ) = "float64" ->
                   rangeResult(IF vcall.tags.range_error = "" THEN ErrOutOfRange
                               ELSE vcall.tags.range_error,
                               validateFloatRange(vcall.v, vcall.tags.min, vcall.tags.max))
              [] OTHER -> NoErr

-----------------------------------------------------------------------------
(* C11: for every integer or floating-point field whose min (max) literal  *)
(* is no number of the field's domain, RangeValidator returns an error     *)
(* holding "invalid min value" ("invalid max value"), whatever the value   *)
(* and the other bound.  The code reports nothing for named integer types, *)
(* and returns the min error alone when the min test fails first.          *)
C11_MalformedBoundReported ==
    (/\ vcall.pc = "done"
     /\ vcall.validator = "RangeValidator"
     /\ KindOf(vcall.typ) \in {"int", "int64", "float64"}) =>
        /\ ~C9_WellFormed(vcall.typ, vcall.tags.min) =>
              \E i \in DOMAIN vcall.err : vcall.err[i] = "invalid min value"
        /\ ~C9_WellFormed(vcall.typ, vcall.tags.max) =>
              \E i \in DOMAIN vcall.err : vcall.err[i] = "invalid max value"

-----------------------------------------------------------------------------
(* C12: a scalar parser given the empty raw string.                        *)

C12_Subject ==
    /\ pcall.pc = "ready"
    /\ pcall.parser \in ScalarParsers
    /\ pcall.raw = <<>>

\* C12 as stated: every scalar parser returns no error on the empty raw
\* string and leaves the field equal to its prior value, the first time and
\* the second.
C12_EmptyRawLeavesField ==
    C12_Subject =>
        \A i \in DOMAIN pcall.hist :
            pcall.hist[i].err = NoErr /\ pcall.hist[i].v = pcall.prior

\* C12 as the code has it: on the empty raw string no scalar parser returns
\* an error; the int64, int, boolean, float64 and duration parsers leave the
\* field at its prior value, the text parser assigns the empty string; a
\* second call gives what the first gave.
C12_EmptyRawNoErrorTextAssigned ==
    C12_Subject =>
        /\ \A i \in DOMAIN pcall.hist :
              /\ pcall.hist[i].err = NoErr
              /\ pcall.hist[i].v = IF pcall.parser = "StringParser" THEN <<>>
                                   ELSE pcall.prior
              /\ pcall.hist[i] = pcall.hist[1]
        /\ pcall.hist # <<>> => pcall.v = pcall.hist[1].v

\* The text parser was twice given "" for a field holding "p".
C12_Witness ==
    /\ C12_Subject
    /\ pcall.parser = "StringParser"
    /\ pcall.prior = <<"p">>
    /\ Len(pcall.hist) = 2
    /\ pcall.hist[1] = Parsed(<<>>)
    /\ pcall.hist[2] = Parsed(<<>>)

-----------------------------------------------------------------------------
(* C13: SliceParser on a non-empty raw string splits it on commas into     *)
(* pieces and, when the element kind has a parser and every piece parses,  *)
(* sets the field to the sequence of the element parser's results, in      *)
(* order; the empty raw string is a no-op without error; an element kind   *)
(* without parser fails with "unsupported slice element type"; one piece   *)
(* that fails to parse makes the whole conversion fail.                    *)

\* The pieces joined again with commas.
RECURSIVE C13_Join(_)
C13_Join(ps) ==
    IF Len(ps) = 1 THEN ps[1] ELSE ps[1] \o <<",">> \o C13_Join(Tail(ps))

\* ps are the pieces of raw: no piece holds a comma, and joined they are raw.
C13_ArePieces(ps, raw) ==
    /\ Len(ps) >= 1
    /\ \A i \in DOMAIN ps : \A k \in DOMAIN ps[i] : ps[i][k] # ","
    /\ C13_Join(ps) = raw

\* The table the element parser is taken from.
C13_Table == IF pcall.method = "Parse" THEN defaultParsers ELSE pcall.provider

\* What the field held before the i-th call.
C13_Before(i) == IF i = 1 THEN pcall.prior ELSE pcall.hist[i - 1].v

\* What the element parser gives for the piece p of the raw string.
C13_Element(p) ==
    ParserParse(C13_Table[KindOf(ElemOf(pcall.typ))], p, ElemOf(pcall.typ),
                ZeroOf(ElemOf(pcall.typ)))

C13_SliceParser ==
    (pcall.pc = "ready" /\ pcall.parser = "SliceParser") =>
        \A i \in DOMAIN pcall.hist :
            IF pcall.raw = <<>>
            THEN pcall.hist[i] = Parsed(C13_Before(i))
            ELSE IF KindOf(ElemOf(pcall.typ)) \notin DOMAIN C13_Table
            THEN pcall.hist[i].err = <<"unsupported slice element type",
                                       KindOf(ElemOf(pcall.typ))>>
            ELSE \E ps \in {Split(pcall.raw, ",")} :
                    /\ C13_ArePieces(ps, pcall.raw)
                    /\ IF \A k \in DOMAIN ps : C13_Element(ps[k]).err = NoErr
                       THEN /\ pcall.hist[i].err = NoErr
                            /\ Len(pcall.hist[i].v.elems) = Len(ps)
                            /\ \A k \in DOMAIN ps :
                                  pcall.hist[i].v.elems[k] = C13_Element(ps[k]).v
                       ELSE pcall.hist[i].err # NoErr

\* "a,b,c" gave ["a","b","c"].
C13_Witness ==
    /\ pcall.pc = "ready"
    /\ pcall.parser = "SliceParser"
    /\ pcall.typ = "[]string"
    /\ pcall.raw = <<"a", ",", "b", ",", "c">>
    /\ pcall.hist # <<>>
    /\ pcall.hist[1] = Parsed(SliceVal(FALSE, << <<"a">>, <<"b">>, <<"c">> >>))

-----------------------------------------------------------------------------
(* C14: for each scalar kind and every valid literal L of that kind,       *)
(* parsing L into a zero-valued field gives the value L denotes; for the   *)
(* duration kind a bare base-10 integer n denotes n seconds, a literal     *)
(* with units denotes itself ("5m", "-10s"), and a malformed literal       *)
(* ("invalid") returns an error.                                           *)

\* A scalar parser was called once on a zero-valued field.
C14_Subject(parser) ==
    /\ pcall.pc = "ready"
    /\ pcall.parser = parser
    /\ pcall.prior = ZeroOf(pcall.typ)
    /\ pcall.hist # <<>>

C14_Numbers == (0 - MaxNum)..MaxNum

\* Milliseconds in one unit of a duration literal.
C14_Millis(u) ==
    CASE u = <<"m", "s">> -> 1
      [] u = <<"s">>      -> 1000
      [] u = <<"m">>      -> 60 * 1000
      [] u = <<"h">>      -> 60 * 60 * 1000

C14_Signed(neg, n) == IF neg THEN 0 - n ELSE n

C14_Text == C14_Subject("StringParser") => pcall.hist[1] = Parsed(pcall.raw)

C14_Integer ==
    (C14_Subject("Int64Parser") \/ C14_Subject("IntParser")) =>
        /\ \A n \in C14_Numbers :
              pcall.raw = FormatInt(n) => pcall.hist[1] = Parsed(n)
        /\ \A n \in 0..MaxNum :
              pcall.raw = <<"+">> \o FormatNat(n) => pcall.hist[1] = Parsed(n)
        /\ pcall.raw = <<"i", "n", "v", "a", "l", "i", "d">> =>
              pcall.hist[1].err # NoErr

C14_Boolean ==
    C14_Subject("BoolParser") =>
        /\ pcall.raw \in { <<"t", "r", "u", "e">>, <<"T", "R", "U", "E">>,
                           <<"T", "r", "u", "e">>, <<"1">>, <<"t">>, <<"T">> }
              => pcall.hist[1] = Parsed(TRUE)
        /\ pcall.raw \in { <<"f", "a", "l", "s", "e">>, <<"F", "A", "L", "S", "E">>,
                           <<"F", "a", "l", "s", "e">>, <<"0">>, <<"f">>, <<"F">> }
              => pcall.hist[1] = Parsed(FALSE)
        /\ pcall.raw = <<"i", "n", "v", "a", "l", "i", "d">> =>
              pcall.hist[1].err # NoErr

C14_Float ==
    C14_Subject("Float64Parser") =>
        /\ \A n \in C14_Numbers :
              pcall.raw = FormatInt(n) =>
                  /\ pcall.hist[1].err = NoErr
                  /\ ~pcall.hist[1].v.nan
                  /\ pcall.hist[1].v.n = n * pcall.hist[1].v.d
        /\ \A neg \in BOOLEAN : \A ip \in 0..2 : \A f \in 0..9 :
              pcall.raw = FormatDec(neg, ip, f) =>
                  /\ pcall.hist[1].err = NoErr
                  /\ ~pcall.hist[1].v.nan
                  /\ 10 * pcall.hist[1].v.n
                        = C14_Signed(neg, 10 * ip + f) * pcall.hist[1].v.d
        /\ pcall.raw = <<"i", "n", "v", "a", "l", "i", "d">> =>
              pcall.hist[1].err # NoErr

C14_Duration ==
    C14_Subject("DurationParser") =>
        /\ \A n \in C14_Numbers \cup {30} :
              pcall.raw = FormatInt(n) => pcall.hist[1] = Parsed(n * 1000)
        /\ \A n \in C14_Numbers : \A u \in DurationUnits :
              pcall.raw = FormatInt(n) \o u =>
                  pcall.hist[1] = Parsed(n * C14_Millis(u))
        /\ \A neg \in BOOLEAN : \A ip \in 0..2 :
              pcall.raw = FormatDec(neg, ip, 5) \o <<"s">> =>
                  pcall.hist[1] = Parsed(C14_Signed(neg, ip * 1000 + 500))
        /\ \A h \in 1..2 : \A m \in 0..MaxNum :
              pcall.raw = FormatNat(h) \o <<"h">> \o FormatNat(m) \o <<"m">> =>
                  pcall.hist[1] = Parsed(h * C14_Millis(<<"h">>) + m * C14_Millis(<<"m">>))
        /\ pcall.raw \in { <<"i", "n", "v", "a", "l", "i", "d">>, <<"5", "x">>,
                           <<"1", "s", "s">>, <<"-">> } =>
              /\ pcall.hist[1].err # NoErr
              /\ pcall.hist[1].v = pcall.prior

C14_LiteralDenotesValue ==
    C14_Text /\ C14_Integer /\ C14_Boolean /\ C14_Float /\ C14_Duration

\* The duration parser was given "30" and the field holds 30 seconds.
C14_Witness ==
    /\ C14_Subject("DurationParser")
    /\ pcall.raw = <<"3", "0">>
    /\ pcall.hist[1] = Parsed(30 * 1000)

-----------------------------------------------------------------------------
(* C15: a parser registered with WithParser(K, p) is the parser the loader *)
(* invokes for every env-annotated leaf of kind K, replacing the default   *)
(* or added as a new entry; of several options for one kind the last       *)
(* applies, and the other kinds keep their defaults.  The code never       *)
(* consults the table for a slice or a time.Duration field.                *)

\* The parser the options register for kind K: the last WithParser naming
\* K, else the default.
RECURSIVE C15_Registered(_, _)
C15_Registered(opts, K) ==
    IF opts = <<>>
    THEN IF K \in DOMAIN defaultParsers THEN defaultParsers[K] ELSE "none"
    ELSE IF opts[Len(opts)].opt = "WithParser" /\ opts[Len(opts)].kind = K
    THEN opts[Len(opts)].name
    ELSE C15_Registered(SubSeq(opts, 1, Len(opts) - 1), K)

C15_Kinds == {"string", "int", "int64", "bool", "float64", "slice", "complex64"}

C15_RegisteredParserIsInvoked ==
    \A opts \in CustomOptions :
        loader = NewEnvLoader(opts) =>
            /\ \A K \in C15_Kinds :
                  IF C15_Registered(opts, K) = "none"
                  THEN K \notin DOMAIN loader.parsers
                  ELSE K \in DOMAIN loader.parsers
                       /\ loader.parsers[K] = C15_Registered(opts, K)
            /\ \A c \in Calls : \A p \in LeafPaths(call[c].T) :
                  (/\ FieldAt(call[c].T, p).tags.env # ""
                   /\ C15_Registered(opts, KindOf(FieldAt(call[c].T, p).typ)) # "none") =>
                      /\ \A i \in EventsAt(c, p, {"parse"}) :
                            call[c].log[i].name
                               = C15_Registered(opts, KindOf(FieldAt(call[c].T, p).typ))
                      /\ Reached(c, p) => EventsAt(c, p, {"parse"}) # {}

-----------------------------------------------------------------------------
(* C16: for every env-annotated leaf the validators run only after the     *)
(* field's parse succeeded, one at a time in registration order (required, *)
(* range, then the caller's in the order of their WithValidator options),  *)
(* and the first that fails ends the walk: no later validator runs for     *)
(* the field and no later field is processed.                              *)

\* The validators the options register: the two defaults, then the
\* caller's in the order given.
RECURSIVE C16_Supplied(_)
C16_Supplied(opts) ==
    IF opts = <<>> THEN <<>>
    ELSE (IF Head(opts).opt = "WithValidator" THEN <<Head(opts).name>> ELSE <<>>)
         \o C16_Supplied(Tail(opts))

C16_Registered(opts) == <<"RequiredValidator", "RangeValidator">> \o C16_Supplied(opts)

\* The positions in the log of call c of the validate events at path p.
C16_Runs(c, p) == EventsAt(c, p, {"validate"})

\* The n-th validate event at path p is at position i of the log.
C16_IsNth(c, p, i, n) ==
    Cardinality({j \in C16_Runs(c, p) : j <= i}) = n

C16_ValidatorsInOrder ==
    \A opts \in CustomOptions :
        loader = NewEnvLoader(opts) =>
            /\ loader.validators = C16_Registered(opts)
            /\ \A c \in Calls : \A p \in LeafPaths(call[c].T) :
                  /\ Cardinality(C16_Runs(c, p)) <= Len(C16_Registered(opts))
                  /\ \A i \in C16_Runs(c, p) :
                        \* after the successful parse of the same field
                        /\ \E k \in EventsAt(c, p, {"parse"}) :
                              k < i /\ call[c].log[k].err = NoErr
                        \* the n-th run is the n-th registered validator
                        /\ \A n \in 1..Len(C16_Registered(opts)) :
                              C16_IsNth(c, p, i, n) =>
                                  call[c].log[i].name = C16_Registered(opts)[n]
                        \* a failure is the last thing the call does
                        /\ call[c].log[i].err # NoErr =>
                              /\ i = Len(call[c].log)
                              /\ Returned(c) =>
                                    call[c].err = ErrNames(call[c].T, p)
                                                    \o call[c].log[i].err
                        \* a success is followed by the next validator
                        /\ (call[c].log[i].err = NoErr
                            /\ ~C16_IsNth(c, p, i, Len(C16_Registered(opts)))) =>
                              /\ i < Len(call[c].log)
                              /\ call[c].log[i + 1].op = "validate"
                              /\ call[c].log[i + 1].path = p

\* With a rejecting validator registered before an accepting one, the call
\* failed on its first field after required, range and the rejecting one
\* ran, and neither the accepting validator nor the second field followed.
C16_Witness ==
    \E c \in Calls :
        /\ loader.validators = <<"RequiredValidator", "RangeValidator",
                                 "FailValidator", "PassValidator">>
        /\ Returned(c)
        /\ call[c].T = Single("int", ReqRangeTags)
        /\ call[c].err = <<"field First", "rejected">>
        /\ Cardinality(C16_Runs(c, <<1>>)) = 3
        /\ call[c].log[Len(call[c].log)].name = "FailValidator"
        /\ EventsAt(c, <<2>>, LeafOps) = {}

-----------------------------------------------------------------------------
(* C17: when LoadConfig calls run concurrently on one loader, each into    *)
(* its own target, every interleaving gives each call the returned error   *)
(* and the final target it would have if it ran alone.                     *)

\* The outcome of a call running alone on structure T holding `target`,
\* from its k-th leaf on: the leaves are loaded in order up to the first
\* that fails.
RECURSIVE C17_AloneFrom(_, _, _)
C17_AloneFrom(T, target, k) ==
    IF k > Len(LeafOrder(T)) THEN [err |-> NoErr, target |-> target]
    ELSE LET p == LeafOrder(T)[k]
             r == loadField(loader, env, p, FieldAt(T, p), target[p])
         IN  IF r.err # NoErr
             THEN [err |-> ErrNames(T, p) \o r.err,
                   target |-> [target EXCEPT ![p] = r.v]]
             ELSE C17_AloneFrom(T, [target EXCEPT ![p] = r.v], k + 1)

C17_Alone(c) == C17_AloneFrom(call[c].T, call[c].prior, 1)

C17_ConcurrentCallsAsAlone ==
    \A c \in Callers :
        call[c].pc = "done" =>
            /\ call[c].err = C17_Alone(c).err
            /\ call[c].target = C17_Alone(c).target

\* While one call was in the middle of its walk, having loaded a field,
\* another call on the same structure type but a target with other content
\* ran and returned an error.
C17_Witness ==
    /\ call["c1"].pc = "walk"
    /\ EventsAt("c1", <<1>>, {"parse"}) # {}
    /\ call["c2"].pc = "done"
    /\ call["c2"].log # <<>>
    /\ call["c1"].T = CfgApp
    /\ call["c2"].T = CfgApp
    /\ call["c1"].prior # call["c2"].prior
    /\ call["c2"].err # NoErr
    /\ call["c2"].target # call["c2"].prior

-----------------------------------------------------------------------------
(* C18: a LoadConfig call, failing or not, changes nothing but fields of   *)
(* its target: the environment is only read, and the loader's parsers,     *)
(* validators and prefix stay what construction made them, so the same     *)
(* loader gives the same result for the same environment and target on     *)
(* every later call.                                                       *)

\* Two calls given the same structure with the same content, both returned.
C18_SameInput(c, d) ==
    /\ call[c].pc = "done"
    /\ call[d].pc = "done"
    /\ call[c].T = call[d].T
    /\ call[c].prior = call[d].prior

C18_SameResult ==
    \A c \in Callers : \A d \in Callers :
        C18_SameInput(c, d) =>
            call[c].err = call[d].err /\ call[c].target = call[d].target

C18_OnlyTargetChanges ==
    /\ env' = env
    /\ loader' = loader
    /\ \A c \in Callers :
          /\ call'[c].T = call[c].T
          /\ call'[c].prior = call[c].prior

C18_LoaderAndEnvironmentUntouched ==
    [](C18_SameResult) /\ [][C18_OnlyTargetChanges]_vars

\* A failed call was followed by a call on the same input, which failed in
\* the same way, under a loader that still has its prefix.
C18_Witness ==
    /\ C18_SameInput("c1", "c2")
    /\ call["c1"].err # NoErr
    /\ call["c2"].err = call["c1"].err
    /\ call["c1"].target # call["c1"].prior
    /\ loader = NewEnvLoader(<<PrefixOption("P_")>>)

-----------------------------------------------------------------------------
(* C19: when LoadConfig fails with a parse error on a leaf handled by the  *)
(* built-in parsers, that field still holds the value it had before the    *)
(* call: a scalar is assigned only after its literal converted, a sequence *)
(* only after every element parsed, so it is never left partially filled.  *)
C19_ParseErrorLeavesField ==
    \A c \in Calls : \A p \in LeafPaths(call[c].T) :
        \A i \in EventsAt(c, p, {"parse"}) :
            call[c].log[i].err # NoErr =>
                /\ call[c].target[p] = call[c].prior[p]
                /\ EventsAt(c, p, {"validate"}) = {}
                /\ i = Len(call[c].log)
                /\ call[c].pc \in {"unwind", "done"}
                /\ Returned(c) =>
                      call[c].err = ErrNames(call[c].T, p) \o call[c].log[i].err

\* A call failed on the second element of "1,x" for an []int64 field that
\* held [7], and the field still holds [7].
C19_Witness ==
    \E c \in Calls :
        /\ Returned(c)
        /\ call[c].T = Single("[]int64", PlainTags)
        /\ call[c].prior[<<1>>] = SliceVal(FALSE, <<7>>)
        /\ \E i \in EventsAt(c, <<1>>, {"parse"}) :
              /\ call[c].log[i].raw = <<"1", ",", "x">>
              /\ call[c].log[i].err # NoErr
        /\ call[c].err = <<"field First", "strconv.ParseInt: invalid syntax">>
        /\ call[c].target[<<1>>] = SliceVal(FALSE, <<7>>)

=============================================================================
